---- MODULE Spec2Model ----
(***************************************************************************)
(* Model of the Flipper NFC -> JSON converter (convert_nfc_to_json.py) and *)
(* of the character-data enricher (enrich_character_data.py).              *)
(*                                                                         *)
(* Text is modelled character by character: a Python str is a TLA+ string, *)
(* At(s, i) is its i-th character (1-based) and the regular expressions of *)
(* the parser are evaluated on it position by position.                    *)
(***************************************************************************)
EXTENDS Integers, Sequences, FiniteSets, TLC

VARIABLES
    content,      \* parser: the text read from the .nfc file
    data,         \* parser: the record parse_flipper_nfc_file returns (Null before the call)
    log,          \* parser: the warnings printed while parsing
    ppc,          \* parser: "read" before the call, "parsed" after it
    nfc_files,    \* converter: the .nfc files found, each its relative path and its text
    idx,          \* converter: the position of the loop in nfc_files (1-based)
    converted_count, \* converter: files written so far
    errors,       \* converter: the (file, message) pairs collected so far
    out,          \* converter: the files of the output directory, by relative path
    cpc,          \* converter: "loop" while the loop runs, "done" after the report
    character_name, \* matcher: the name find_character_data is called with
    normalized,   \* matcher: normalize_name(character_name)
    char_data,    \* matcher: what find_character_data returned, <<>> for None
    npc,          \* matcher: "start", "normalized", "found"
    json_file,    \* enricher: the JSON file on disk: valid says json.load can read it
    interactive,  \* enricher: the interactive flag of the last call
    enrich_result, \* enricher: what the last call returned: "True", "False", "none" before any
    status,       \* enricher: the status line the last call printed
    writes,       \* enricher: how often the file was opened for writing
    runs          \* enricher: the calls of enrich_json_file on the file so far

pvars == <<content, data, log, ppc>>
cvars == <<nfc_files, idx, converted_count, errors, out, cpc>>
nvars == <<character_name, normalized, char_data, npc>>
evars == <<json_file, interactive, enrich_result, status, writes, runs>>
vars == <<pvars, cvars, nvars, evars>>

\* the enricher, not called
EnricherIdle ==
    /\ json_file = [valid |-> FALSE, doc |-> <<>>]
    /\ interactive = FALSE
    /\ enrich_result = "none"
    /\ status = "idle"
    /\ writes = 0
    /\ runs = 0

\* the matcher, not called
MatcherIdle ==
    /\ character_name = ""
    /\ normalized = ""
    /\ char_data = <<>>
    /\ npc = "idle"

(***************************************************************************)
(* Characters and strings                                                  *)
(***************************************************************************)

\* Python's None (no parser output is ever this string: it holds "<").
Null == "<null>"

At(s, i) == SubSeq(s, i, i)

Min(S) == CHOOSE x \in S : \A y \in S : x <= y
Max(S) == CHOOSE x \in S : \A y \in S : x >= y

UpperAlphabet == "ABCDEFGHIJKLMNOPQRSTUVWXYZ"
LowerAlphabet == "abcdefghijklmnopqrstuvwxyz"

\* str.upper() and str.lower() on one character
UpperChar(c) ==
    IF \E i \in 1..Len(LowerAlphabet) : At(LowerAlphabet, i) = c
    THEN At(UpperAlphabet, CHOOSE i \in 1..Len(LowerAlphabet) : At(LowerAlphabet, i) = c)
    ELSE c

LowerChar(c) ==
    IF \E i \in 1..Len(UpperAlphabet) : At(UpperAlphabet, i) = c
    THEN At(LowerAlphabet, CHOOSE i \in 1..Len(UpperAlphabet) : At(UpperAlphabet, i) = c)
    ELSE c

RECURSIVE MapChars(_, _, _)
MapChars(s, i, toUpper) ==
    IF i > Len(s) THEN ""
    ELSE (IF toUpper THEN UpperChar(At(s, i)) ELSE LowerChar(At(s, i)))
         \o MapChars(s, i + 1, toUpper)

upper(s) == MapChars(s, 1, TRUE)
lower(s) == MapChars(s, 1, FALSE)

\* the character classes of the patterns
DigitChars == {"0", "1", "2", "3", "4", "5", "6", "7", "8", "9"}
HexUpperChars == DigitChars \cup {"A", "B", "C", "D", "E", "F"}
HexAnyChars == HexUpperChars \cup {"a", "b", "c", "d", "e", "f"}
SpaceChars == {" ", "\t", "\n", "\r"}
WordChars == {At(UpperAlphabet, i) : i \in 1..Len(UpperAlphabet)}
             \cup {At(LowerAlphabet, i) : i \in 1..Len(LowerAlphabet)}
             \cup DigitChars \cup {"_"}

\* [0-9A-F] under re.IGNORECASE, and without it
HexClass(ignorecase) == IF ignorecase THEN HexAnyChars ELSE HexUpperChars

\* first index >= p whose character is outside class (Len(s) + 1 when none):
\* where a greedy class* that starts at p stops
RECURSIVE SpanWhile(_, _, _)
SpanWhile(s, p, class) ==
    IF p > Len(s) \/ At(s, p) \notin class THEN p
    ELSE SpanWhile(s, p + 1, class)

\* the literal lit matches s at p
MatchLit(s, p, lit, ignorecase) ==
    /\ p + Len(lit) - 1 <= Len(s)
    /\ At(s, p) \in {At(lit, 1)} \cup
          (IF ignorecase THEN {LowerChar(At(lit, 1)), UpperChar(At(lit, 1))} ELSE {})
    /\ LET got == SubSeq(s, p, p + Len(lit) - 1)
       IN  IF ignorecase THEN lower(got) = lower(lit) ELSE got = lit

\* the characters of s that are in class, in order
RECURSIVE FilterChars(_, _, _)
FilterChars(s, i, class) ==
    IF i > Len(s) THEN ""
    ELSE (IF At(s, i) \in class THEN At(s, i) ELSE "") \o FilterChars(s, i + 1, class)

\* s without its characters that are in class
RECURSIVE RemoveChars(_, _, _)
RemoveChars(s, i, class) ==
    IF i > Len(s) THEN ""
    ELSE (IF At(s, i) \in class THEN "" ELSE At(s, i)) \o RemoveChars(s, i + 1, class)

\* str.strip()
strip(s) ==
    LET keep == {i \in 1..Len(s) : At(s, i) \notin SpaceChars}
    IN  IF keep = {} THEN "" ELSE SubSeq(s, Min(keep), Max(keep))

\* int() of a run of decimal digits
DigitValue(c) == CHOOSE v \in 0..9 : At("0123456789", v + 1) = c

RECURSIVE int(_)
int(s) ==
    IF Len(s) = 0 THEN 0
    ELSE 10 * int(SubSeq(s, 1, Len(s) - 1)) + DigitValue(At(s, Len(s)))

(***************************************************************************)
(* parse_flipper_nfc_file: the field patterns                              *)
(***************************************************************************)

\* (?:\n|$) under re.MULTILINE at index e: a newline there, or the end of the text
LineEndAt(s, e) == e > Len(s) \/ At(s, e) = "\n"

\* ([0-9A-F\s]+?)(?:\n|$) with the group starting at g: the index after the
\* shortest group that a line end follows, 0 when there is none
UidLazyEnd(s, g) ==
    LET r == SpanWhile(s, g, HexClass(TRUE) \cup SpaceChars)
        ends == {e \in (g + 1)..r : LineEndAt(s, e)}
    IN  IF ends = {} THEN 0 ELSE Min(ends)

\* UID:\s* matched at p: the group starts \s* can leave (it is greedy, and
\* backtracks one character at a time down to the end of the label)
UidGroupStarts(s, p) ==
    IF ~MatchLit(s, p, "UID:", TRUE) THEN {}
    ELSE LET q == p + Len("UID:")
         IN  {g \in q..SpanWhile(s, q, SpaceChars) : UidLazyEnd(s, g) # 0}

\* re.search(r'UID:\s*([0-9A-F\s]+?)(?:\n|$)', content, IGNORECASE | MULTILINE):
\* group(1) of the leftmost match, Null when nothing matches
uid_match(s) ==
    LET starts == {p \in 1..Len(s) : UidGroupStarts(s, p) # {}}
    IN  IF starts = {} THEN Null
        ELSE LET g == Max(UidGroupStarts(s, Min(starts)))
             IN  SubSeq(s, g, UidLazyEnd(s, g) - 1)

\* ParseUid without the final .upper()
ParseUid_NoUpper(s) ==
    LET m == uid_match(s)
    IN  IF m = Null THEN Null
        ELSE FilterChars(strip(m), 1, HexAnyChars)

\* data['uid']
ParseUid(s) ==
    LET m == uid_match(s)
    IN  IF m = Null THEN Null
        ELSE upper(FilterChars(strip(m), 1, HexAnyChars))

\* label\s*([0-9A-F\s]+) matched at p with no flags: <<start, end>> of the
\* group (end exclusive), <<0, 0>> when the pattern does not match at p.
\* \s* takes the whole run of white space; when no hex digit follows, it gives
\* one character back and the group is that one white-space character.
HexFieldGroupAt(s, p, label) ==
    IF ~MatchLit(s, p, label, FALSE) THEN <<0, 0>>
    ELSE LET q == p + Len(label)
             w == SpanWhile(s, q, SpaceChars)
             r == SpanWhile(s, q, HexClass(FALSE) \cup SpaceChars)
         IN  IF r = q THEN <<0, 0>>
             ELSE IF w < r THEN <<w, r>>
             ELSE <<w - 1, r>>

\* re.search(label + r'\s*([0-9A-F\s]+)', content): group(1) or Null
hex_field_match(s, label) ==
    LET starts == {p \in 1..Len(s) : HexFieldGroupAt(s, p, label)[1] # 0}
    IN  IF starts = {} THEN Null
        ELSE LET g == HexFieldGroupAt(s, Min(starts), label)
             IN  SubSeq(s, g[1], g[2] - 1)

\* data['atqa'] and data['sak']
ParseHexField(s, label) ==
    LET m == hex_field_match(s, label)
    IN  IF m = Null THEN Null
        ELSE upper(FilterChars(strip(m), 1, HexAnyChars))

\* re.search(r'Mifare Classic type:\s*(\w+)', content): group(1) or Null
ParseMifareType(s) ==
    LET lit == "Mifare Classic type:"
        tok(p) == SpanWhile(s, p + Len(lit), SpaceChars)
        starts == {p \in 1..Len(s) :
                     /\ MatchLit(s, p, lit, FALSE)
                     /\ SpanWhile(s, tok(p), WordChars) > tok(p)}
    IN  IF starts = {} THEN Null
        ELSE LET t == tok(Min(starts))
             IN  SubSeq(s, t, SpanWhile(s, t, WordChars) - 1)

(***************************************************************************)
(* parse_flipper_nfc_file: the blocks                                      *)
(***************************************************************************)

\* the number of byte groups the block pattern asks for: {16}
PairsPerBlock == 16
\* the length of an accepted block: 32 hex characters
BlockHexLen == 32
\* the number of entries of data['blocks']: range(64)
NumBlocks == 64

\* (?:[0-9A-F]{2}\s*){n} from p under re.IGNORECASE: the index after the
\* match, 0 when it fails. Each \s* is greedy and is followed by a hex digit
\* or by the end of the pattern, so it never has to give anything back.
RECURSIVE PairsEnd(_, _, _)
PairsEnd(s, p, n) ==
    IF n = 0 THEN p
    ELSE IF /\ p + 1 <= Len(s)
            /\ At(s, p) \in HexClass(TRUE)
            /\ At(s, p + 1) \in HexClass(TRUE)
         THEN PairsEnd(s, SpanWhile(s, p + 2, SpaceChars), n - 1)
         ELSE 0

\* Block\s+(\d+):\s*((?:[0-9A-F]{2}\s*){16}) matched at p under re.IGNORECASE:
\* [end |-> index after the match (0: no match), num |-> group(1), hex |-> group(2)]
BlockMatchAt(s, p) ==
    LET none == [end |-> 0, num |-> "", hex |-> ""]
        a == p + Len("Block")
        b == SpanWhile(s, a, SpaceChars)
        c == SpanWhile(s, b, DigitChars)
        d == SpanWhile(s, c + 1, SpaceChars)
        e == PairsEnd(s, d, PairsPerBlock)
    IN  IF ~MatchLit(s, p, "Block", TRUE) THEN none
        ELSE IF b = a \/ c = b THEN none
        ELSE IF c > Len(s) \/ At(s, c) # ":" THEN none
        ELSE IF e = 0 THEN none
        ELSE [end |-> e, num |-> SubSeq(s, b, c - 1), hex |-> SubSeq(s, d, e - 1)]

\* re.finditer(block_pattern, content, ...) from index p on: the matches, left
\* to right, none overlapping another
RECURSIVE finditer_blocks(_, _)
finditer_blocks(s, p) ==
    LET starts == {q \in p..Len(s) : BlockMatchAt(s, q).end # 0}
    IN  IF starts = {} THEN <<>>
        ELSE LET m == BlockMatchAt(s, Min(starts))
             IN  <<m>> \o finditer_blocks(s, m.end)

\* CleanBlock without the final .upper()
CleanBlock_NoUpper(hex) == RemoveChars(hex, 1, SpaceChars)

\* block_data = re.sub(r'\s+', '', match.group(2)).upper()
CleanBlock(hex) == upper(RemoveChars(hex, 1, SpaceChars))

\* the body of the loop over the matches, for match m: the dict blocks and the
\* warnings printed so far are in acc
StoreBlock(acc, m) ==
    LET block_num == int(m.num)
        block_data == CleanBlock(m.hex)
        put(v) == [k \in DOMAIN acc.blocks \cup {block_num} |->
                     IF k = block_num THEN v ELSE acc.blocks[k]]
    IN  IF Len(block_data) = BlockHexLen
        THEN [blocks |-> put(block_data), log |-> acc.log]
        ELSE IF Len(block_data) > BlockHexLen
        THEN [blocks |-> put(SubSeq(block_data, 1, BlockHexLen)),
              log |-> Append(acc.log, [warning |-> "truncated", block |-> block_num,
                                       chars |-> Len(block_data)])]
        ELSE [blocks |-> acc.blocks,
              log |-> Append(acc.log, [warning |-> "invalid length", block |-> block_num,
                                       chars |-> Len(block_data)])]

\* the loop "for match in re.finditer(...)" over the matches ms[i..]
RECURSIVE StoreBlocks(_, _, _)
StoreBlocks(acc, ms, i) ==
    IF i > Len(ms) THEN acc
    ELSE StoreBlocks(StoreBlock(acc, ms[i]), ms, i + 1)

\* blocks and the warnings after the loop
ParsedBlocks(s) ==
    StoreBlocks([blocks |-> <<>>, log |-> <<>>], finditer_blocks(s, 1), 1)

\* '00' * 16
RECURSIVE Repeat(_, _)
Repeat(str, n) == IF n = 0 THEN "" ELSE str \o Repeat(str, n - 1)

EmptyBlock == Repeat("00", 16)

\* AssembleBlocks reading the dict one index off
AssembleBlocks_Shifted(blocks) ==
    [j \in 1..NumBlocks |->
        IF j \in DOMAIN blocks THEN blocks[j] ELSE EmptyBlock]

\* "for i in range(64)": data['blocks'], entry i of the code at index i + 1
AssembleBlocks(blocks) ==
    [j \in 1..NumBlocks |->
        IF (j - 1) \in DOMAIN blocks THEN blocks[j - 1] ELSE EmptyBlock]

\* the record parse_flipper_nfc_file returns
parse_flipper_nfc_file(s) ==
    [uid |-> ParseUid(s),
     atqa |-> ParseHexField(s, "ATQA:"),
     sak |-> ParseHexField(s, "SAK:"),
     mifare_type |-> ParseMifareType(s),
     blocks |-> AssembleBlocks(ParsedBlocks(s).blocks)]

(***************************************************************************)
(* The parser's inputs: texts made of a header and of block lines          *)
(***************************************************************************)

\* how many block lines a text holds at most
MaxBlockLines == 2

Pairs16 == "00 01 02 03 04 05 06 07 08 09 0A 0B 0C 0D 0E 0F"
Pairs16Lower == "de ad be ef 00 11 22 33 44 55 66 77 88 99 aa bb"
Pairs16Other == "FF EE DD CC BB AA 99 88 77 66 55 44 33 22 11 00"
Pairs10 == "10 11 12 13 14 15 16 17 18 19"
Pairs6 == "A0 A1 A2 A3 A4 A5"

Headers ==
    { "",
      "UID: 04 A2 B3\nATQA: 00 04\nSAK: 08\nMifare Classic type: 1K\n",
      "uid: 04 a2 b3\natqa: 00 04\nsak: 08\n",
      "UID: 04 a2 B3\nATQA: 0a 04\nSAK: 0b\n",
      "UID: ZZ\nATQA: 00 04\n",
      "UID: \nSAK: 08\n",
      "Version: 3\nATQA: 00 04\nSAK: 08\n",
      "UID: 0G\nUID:\t0C 1D\n" }

BlockLines ==
    { "Block 0: " \o Pairs16 \o "\n",
      "block 63: " \o Pairs16Lower \o "\n",
      "Block 63: " \o Pairs16 \o " 10\n",
      "Block 2: " \o Pairs10 \o "\n",
      "Block 64: " \o Pairs16Other \o "\n",
      "Block 0: " \o Pairs16Other \o "\n",
      Pairs6 \o "\n" }

\* the concatenations of at most n block lines
RECURSIVE BlockTexts(_)
BlockTexts(n) ==
    IF n = 0 THEN {""}
    ELSE LET shorter == BlockTexts(n - 1)
         IN  shorter \cup {t \o l : t \in shorter, l \in BlockLines}

Texts == {h \o b : h \in Headers, b \in BlockTexts(MaxBlockLines)}

(***************************************************************************)
(* SpecParse: one call of parse_flipper_nfc_file on one text               *)
(***************************************************************************)

\* "data = {...}" at the top of parse_flipper_nfc_file
EmptyData == [uid |-> Null, atqa |-> Null, sak |-> Null, mifare_type |-> Null,
              blocks |-> <<>>]

\* the converter, not started and with nothing to do
ConverterIdle ==
    /\ nfc_files = <<>>
    /\ idx = 1
    /\ converted_count = 0
    /\ errors = <<>>
    /\ out = <<>>
    /\ cpc = "idle"

InitParse ==
    /\ content \in Texts
    /\ data = EmptyData
    /\ log = <<>>
    /\ ppc = "read"
    /\ ConverterIdle
    /\ MatcherIdle
    /\ EnricherIdle

ParseFile ==
    /\ ppc = "read"
    /\ data' = parse_flipper_nfc_file(content)
    /\ log' = ParsedBlocks(content).log
    /\ ppc' = "parsed"
    /\ UNCHANGED <<content, cvars, nvars, evars>>

NextParse == ParseFile

SpecParse == InitParse /\ [][NextParse]_vars

(***************************************************************************)
(* What the claims about the parser read off the text, defined on the      *)
(* lines of the text and not through the parser's patterns                 *)
(***************************************************************************)

\* the index of the first newline at or after p, Len(s) + 1 when none
EndOfLine(s, p) == Min({i \in p..Len(s) : At(s, i) = "\n"} \cup {Len(s) + 1})

\* a line of s starts at p
IsLineStart(s, p) == p = 1 \/ At(s, p - 1) = "\n"

BlankChars == SpaceChars \ {"\n"}

AllIn(str, class) == \A i \in 1..Len(str) : At(str, i) \in class

\* a UID: label at p whose line goes on with hex digits and blanks only, at
\* least one hex digit among them
ValidUidLineAt(s, p) ==
    /\ MatchLit(s, p, "UID:", TRUE)
    /\ LET rest == SubSeq(s, p + 4, EndOfLine(s, p) - 1)
       IN  /\ AllIn(rest, HexAnyChars \cup BlankChars)
           /\ \E i \in 1..Len(rest) : At(rest, i) \in HexAnyChars

HasValidUidLine(s) == \E p \in 1..Len(s) : ValidUidLineAt(s, p)
HasUidLabel(s) == \E p \in 1..Len(s) : MatchLit(s, p, "UID:", TRUE)

\* the label "Block <n>:" at p: <<n, index after the colon>>, <<-1, 0>> when
\* there is no such label at p
BlockLabelAt(s, p) ==
    LET a == p + 5
        b == SpanWhile(s, a, SpaceChars)
        c == SpanWhile(s, b, DigitChars)
    IN  IF /\ MatchLit(s, p, "Block", TRUE)
           /\ b > a /\ c > b /\ c <= Len(s) /\ At(s, c) = ":"
        THEN <<int(SubSeq(s, b, c - 1)), c + 1>>
        ELSE <<-1, 0>>

\* what follows the label at p on its line
BlockLineRest(s, p) == SubSeq(s, BlockLabelAt(s, p)[2], EndOfLine(s, p) - 1)

\* the blank-separated words of str
Words(str) ==
    LET starts == {i \in 1..Len(str) :
                     /\ At(str, i) \notin BlankChars
                     /\ i = 1 \/ At(str, i - 1) \in BlankChars}
    IN  {<<i, SubSeq(str, i, SpanWhile(str, i, HexAnyChars \cup WordChars \cup {"?"}) - 1)>> :
            i \in starts}

\* the line that starts at p is "Block n:" and then two-character hex groups only
BlockLineAt(s, p) ==
    /\ IsLineStart(s, p)
    /\ BlockLabelAt(s, p)[1] >= 0
    /\ BlockLabelAt(s, p)[2] <= EndOfLine(s, p)
    /\ AllIn(BlockLineRest(s, p), HexAnyChars \cup BlankChars)
    /\ \A w \in Words(BlockLineRest(s, p)) : Len(w[2]) = 2

\* the hex digits of that line: blanks removed, letters uppercased
BlockLineHex(s, p) == upper(RemoveChars(BlockLineRest(s, p), 1, BlankChars))

\* the line at p is "Block i:" followed by exactly 16 two-character groups
WellFormedBlockLine(s, p, i) ==
    /\ BlockLineAt(s, p)
    /\ BlockLabelAt(s, p)[1] = i
    /\ Cardinality(Words(BlockLineRest(s, p))) = 16

\* the indices at which a block label stands
BlockLabels(s) == {p \in 1..Len(s) : BlockLabelAt(s, p)[1] >= 0}

\* the block indices the labels of s name
NamedBlocks(s) == {BlockLabelAt(s, p)[1] : p \in BlockLabels(s)}

\* a label "Block i:" somewhere after index p
LaterLabel(s, p, i) == \E q \in BlockLabels(s) : q > p /\ BlockLabelAt(s, q)[1] = i

Zeros32 == "00000000000000000000000000000000"

(***************************************************************************)
(* Claims about parse_flipper_nfc_file                                     *)
(***************************************************************************)

\* C1: whatever the text, the returned record has exactly 64 blocks, each of
\* exactly 32 characters, all of them 0-9 or A-F.
C1_BlocksShape ==
    ppc = "parsed" =>
        /\ Len(data.blocks) = 64
        /\ \A j \in 1..Len(data.blocks) :
              /\ Len(data.blocks[j]) = 32
              /\ AllIn(data.blocks[j], HexUpperChars)

\* C1 witness: a parsed text with a lowercase line for block 63 and a line for
\* block 0: the first is stored in upper case, index 1 is zero-filled.
C1_Witness ==
    /\ ppc = "parsed"
    /\ content = "block 63: " \o Pairs16Lower \o "\n" \o "Block 0: " \o Pairs16Other \o "\n"
    /\ data.blocks[64] = "DEADBEEF00112233445566778899AABB"
    /\ data.blocks[2] = Zeros32

\* C2: a text with a valid UID: line parses to a non-null uid; a text with no
\* UID: label parses to a null uid; a non-null uid holds only 0-9 and A-F.
C2_UidUpperHex ==
    ppc = "parsed" =>
        /\ HasValidUidLine(content) => data.uid # Null
        /\ ~HasUidLabel(content) => data.uid = Null
        /\ data.uid # Null => AllIn(data.uid, HexUpperChars)

\* C2 witness: a lowercase UID line was parsed to its uppercase digits.
C2_Witness ==
    /\ ppc = "parsed"
    /\ HasValidUidLine(content)
    /\ MatchLit(content, 1, "uid: 04 a2 b3", FALSE)
    /\ data.uid = "04A2B3"

\* C3 as stated: for every index i in 0..63, every line "Block i:" followed by
\* exactly 16 hex groups gives blocks[i] its 32 digits, and an index the text
\* has no block label for is the 32-zero string.
C3_EveryLineStored ==
    ppc = "parsed" =>
        /\ \A p \in BlockLabels(content) :
              LET i == BlockLabelAt(content, p)[1]
              IN  (i \in 0..63 /\ WellFormedBlockLine(content, p, i))
                      => data.blocks[i + 1] = BlockLineHex(content, p)
        /\ \A i \in (0..63) \ NamedBlocks(content) : data.blocks[i + 1] = Zeros32

\* C3 amended: for every index i in 0..63, a line "Block i:" followed by
\* exactly 16 hex groups gives blocks[i] its 32 digits when no later block
\* label names the same index, and an index the text has no block label for
\* is the 32-zero string.
C3_LastLineStored ==
    ppc = "parsed" =>
        /\ \A p \in BlockLabels(content) :
              LET i == BlockLabelAt(content, p)[1]
              IN  (i \in 0..63 /\ WellFormedBlockLine(content, p, i)
                   /\ ~LaterLabel(content, p, i))
                      => data.blocks[i + 1] = BlockLineHex(content, p)
        /\ \A i \in (0..63) \ NamedBlocks(content) : data.blocks[i + 1] = Zeros32

\* C3 witness: two well-formed lines for index 0 with different digits; the
\* later one is in blocks[0] and the unnamed index 1 is zero-filled.
C3_Witness ==
    /\ ppc = "parsed"
    /\ \E p, q \in BlockLabels(content) :
          /\ p < q
          /\ WellFormedBlockLine(content, p, 0)
          /\ WellFormedBlockLine(content, q, 0)
          /\ BlockLineHex(content, p) # BlockLineHex(content, q)
          /\ data.blocks[1] = BlockLineHex(content, q)
    /\ data.blocks[2] = Zeros32

\* a warning of the given kind for block n is in the log
Logged(kind, n) == \E k \in 1..Len(log) : log[k].warning = kind /\ log[k].block = n

\* C4: a block line with more than 32 hex characters is stored as its first 32
\* and a truncation warning is logged; one with fewer than 32 is not stored and
\* a diagnostic is logged for it.
C4_MalformedLogged ==
    ppc = "parsed" =>
        \A p \in BlockLabels(content) :
            (BlockLineAt(content, p) /\ BlockLabelAt(content, p)[1] \in 0..63
             /\ ~LaterLabel(content, p, BlockLabelAt(content, p)[1]))
            => LET n == BlockLabelAt(content, p)[1]
                   hex == BlockLineHex(content, p)
               IN  /\ Len(hex) > 32 =>
                          /\ data.blocks[n + 1] = SubSeq(hex, 1, 32)
                          /\ Logged("truncated", n)
                   /\ Len(hex) < 32 => Logged("invalid length", n)

\* the letters of s are hex digits or belong to a UID:, ATQA:, SAK: or Block label
OnlyLabelsAndHex(s) ==
    \A i \in 1..Len(s) :
        \/ At(s, i) \in HexAnyChars \cup SpaceChars \cup {":"}
        \/ \E lit \in {"UID:", "ATQA:", "SAK:", "Block"} :
              \E p \in (i - Len(lit) + 1)..i : p >= 1 /\ MatchLit(s, p, lit, TRUE)

\* C7: a text parses to the same uid, atqa, sak and blocks as the text with
\* its labels and hex digits in lower case, and every hex string is uppercase.
C7_CaseInsensitive ==
    (ppc = "parsed" /\ OnlyLabelsAndHex(content)) =>
        LET other == parse_flipper_nfc_file(lower(content))
        IN  /\ data.uid = other.uid
            /\ data.atqa = other.atqa
            /\ data.sak = other.sak
            /\ data.blocks = other.blocks
            /\ \A f \in {data.uid, data.atqa, data.sak} :
                  f # Null => AllIn(f, HexUpperChars)

(***************************************************************************)
(* convert_all_nfc_files                                                   *)
(***************************************************************************)

\* how many .nfc files the source tree holds at most
MaxFiles == 2

\* the path of the i-th file found, relative to the source directory, as its parts
RelPathOf(i) ==
    CASE i = 1 -> <<"Spyro.nfc">>
      [] i = 2 -> <<"Skylanders 1", "Bash (Legendary).nfc">>
      [] i = 3 -> <<"Giants", "Figures", "Eye-Brawl.nfc">>
      [] OTHER -> <<"Extra", ToString(i) \o ".nfc">>

\* the texts the files of the tree hold: no UID line, a UID line without
\* digits, and two complete dumps
ConvTexts ==
    { "SAK: 08\n",
      "UID: \nSAK: 08\n",
      "UID: 04 A2 B3\nATQA: 00 04\nSAK: 08\nMifare Classic type: 1K\nBlock 0: " \o Pairs16 \o "\n",
      "uid: 0c 1d\nBlock 2: " \o Pairs10 \o "\n" }

\* the lists list(source_path.rglob('*.nfc')) can be: n files, each with a text
FileLists ==
    UNION {[1..n -> ConvTexts] : n \in 0..MaxFiles}

\* what can go wrong in one iteration: reading the file, making the output
\* directory, writing the document once its file is open
Faults == {"none", "read", "mkdir", "write"}

\* str(PurePath(parts)) with forward slashes
RECURSIVE JoinPath(_)
JoinPath(parts) ==
    IF Len(parts) = 0 THEN "."
    ELSE IF Len(parts) = 1 THEN parts[1]
    ELSE parts[1] \o "/" \o JoinPath(Tail(parts))

\* PurePath.with_suffix on the file name
with_suffix(name, suffix) ==
    LET dots == {i \in 2..Len(name) : At(name, i) = "."}
    IN  IF dots = {} THEN name \o suffix
        ELSE SubSeq(name, 1, Max(dots) - 1) \o suffix

\* output_file, relative to the output directory
OutputFile(rel_path) ==
    JoinPath([k \in 1..Len(rel_path) |->
                IF k = Len(rel_path) THEN with_suffix(rel_path[k], ".json")
                ELSE rel_path[k]])

\* nfc_data['metadata']
Metadata(rel_path) ==
    [original_filename |-> rel_path[Len(rel_path)],
     original_path |-> JoinPath(rel_path),
     category |-> IF Len(rel_path) > 0 THEN rel_path[1] ELSE Null,
     subcategory |-> IF Len(rel_path) > 1 THEN rel_path[2] ELSE Null]

\* the document json.dump writes
Document(nfc_data, rel_path) ==
    [uid |-> nfc_data.uid, atqa |-> nfc_data.atqa, sak |-> nfc_data.sak,
     mifare_type |-> nfc_data.mifare_type, blocks |-> nfc_data.blocks,
     metadata |-> Metadata(rel_path)]

\* the output directory with file path (re)written: complete is FALSE when
\* json.dump raised with the file already opened for writing
WriteFile(files, path, doc, complete) ==
    [q \in DOMAIN files \cup {path} |->
        IF q = path THEN [complete |-> complete, doc |-> doc] ELSE files[q]]

\* "if not nfc_data['uid']"
MissingUid_OnlyNone(nfc_data) == nfc_data.uid = Null

MissingUid(nfc_data) == nfc_data.uid \in {Null, ""}

\* the except clause of the loop body, as if it were around the whole loop:
\* the error is recorded and the loop is left
HandleException_Abort(st, file, message) ==
    [st EXCEPT !.errors = Append(@, [file |-> file, error |-> message]),
               !.idx = Len(nfc_files) + 1]

\* "except Exception as e": the error is recorded and the loop goes on
HandleException(st, file, message) ==
    [st EXCEPT !.errors = Append(@, [file |-> file, error |-> message]),
               !.idx = @ + 1]

\* one iteration of "for nfc_file in nfc_files" on the file at rel_path with
\* the given text; st holds idx, converted_count, errors and out
ConvertOne(st, rel_path, text, fault) ==
    LET file == JoinPath(rel_path)
        nfc_data == parse_flipper_nfc_file(text)
        output_file == OutputFile(rel_path)
        doc == Document(nfc_data, rel_path)
    IN  IF fault = "read" THEN HandleException(st, file, "cannot read")
        ELSE IF MissingUid(nfc_data)
        THEN [st EXCEPT !.errors = Append(@, [file |-> file, error |-> "Missing UID"]),
                        !.idx = @ + 1]
        ELSE IF fault = "mkdir" THEN HandleException(st, file, "cannot create directory")
        ELSE IF fault = "write"
        THEN HandleException([st EXCEPT !.out = WriteFile(@, output_file, doc, FALSE)],
                             file, "cannot write")
        ELSE [st EXCEPT !.out = WriteFile(@, output_file, doc, TRUE),
                        !.converted_count = @ + 1,
                        !.idx = @ + 1]

InitConvert ==
    /\ \E texts \in FileLists :
          nfc_files = [k \in 1..Len(texts) |->
                          [rel_path |-> RelPathOf(k), text |-> texts[k]]]
    /\ idx = 1
    /\ converted_count = 0
    /\ errors = <<>>
    /\ out = <<>>
    /\ cpc = "loop"
    /\ content = ""
    /\ data = EmptyData
    /\ log = <<>>
    /\ ppc = "idle"
    /\ MatcherIdle
    /\ EnricherIdle

\* the loop body, for the file at idx
ProcessFile ==
    /\ cpc = "loop"
    /\ idx <= Len(nfc_files)
    /\ \E fault \in Faults :
          LET st == ConvertOne([idx |-> idx, converted_count |-> converted_count,
                                errors |-> errors, out |-> out],
                               nfc_files[idx].rel_path, nfc_files[idx].text, fault)
          IN  /\ idx' = st.idx
              /\ converted_count' = st.converted_count
              /\ errors' = st.errors
              /\ out' = st.out
    /\ UNCHANGED <<nfc_files, cpc, pvars, nvars, evars>>

\* the end of the loop: the report is printed and (converted_count, errors) returned
Report ==
    /\ cpc = "loop"
    /\ idx > Len(nfc_files)
    /\ cpc' = "done"
    /\ UNCHANGED <<nfc_files, idx, converted_count, errors, out, pvars, nvars, evars>>

NextConvert == ProcessFile \/ Report

SpecConvert == InitConvert /\ [][NextConvert]_vars

(***************************************************************************)
(* Claims about convert_all_nfc_files                                      *)
(***************************************************************************)

\* the file at position k of nfc_files has been through the loop body
Processed(k) == k \in 1..Len(nfc_files) /\ k < idx

\* the parse of the k-th file yields no UID (none, or an empty one)
NoUid(k) == ParseUid(nfc_files[k].text) \in {Null, ""}

\* the entries of the error list that name the k-th file
ErrorsFor(k) ==
    {e \in 1..Len(errors) : errors[e].file = JoinPath(nfc_files[k].rel_path)}

\* the output directory holds a file (complete or not) for the k-th file
HasOutput(k) == OutputFile(nfc_files[k].rel_path) \in DOMAIN out

\* the k-th file was written completely
Converted(k) ==
    /\ HasOutput(k)
    /\ out[OutputFile(nfc_files[k].rel_path)].complete

\* C5: a processed file whose parse yields no UID has no output file, not even
\* a partial one, and exactly one error entry; an output file exists only for
\* a file a UID was extracted from.
C5_NoUidNoOutput ==
    \A k \in 1..Len(nfc_files) :
        /\ (Processed(k) /\ NoUid(k)) =>
              /\ ~HasOutput(k)
              /\ Cardinality(ErrorsFor(k)) = 1
        /\ HasOutput(k) =>
              /\ ~NoUid(k)
              /\ out[OutputFile(nfc_files[k].rel_path)].doc.uid
                    = ParseUid(nfc_files[k].text)

\* C5 witness: the run is over; the first file had a UID line without digits
\* and was recorded as "Missing UID" with nothing written, the second was
\* written.
C5_Witness ==
    /\ cpc = "done"
    /\ Len(nfc_files) = 2
    /\ nfc_files[1].text = "UID: \nSAK: 08\n"
    /\ errors = <<[file |-> "Spyro.nfc", error |-> "Missing UID"]>>
    /\ DOMAIN out = {"Skylanders 1/Bash (Legendary).json"}
    /\ converted_count = 1

\* C6: a failure on one file never stops the loop: every file that went
\* through the loop body is counted exactly once, as converted or as an error,
\* and when the run is over every file found has gone through it, so
\* converted_count plus the number of error entries is the number of files.
C6_EveryFileCountedOnce ==
    /\ converted_count + Len(errors) = idx - 1
    /\ converted_count = Cardinality({k \in 1..Len(nfc_files) : Converted(k)})
    /\ \A k \in 1..Len(nfc_files) :
          /\ Processed(k) =>
                Cardinality(ErrorsFor(k)) + (IF Converted(k) THEN 1 ELSE 0) = 1
          /\ ~Processed(k) => (ErrorsFor(k) = {} /\ ~HasOutput(k))
    /\ cpc = "done" =>
          /\ \A k \in 1..Len(nfc_files) : Processed(k)
          /\ converted_count + Len(errors) = Len(nfc_files)

\* C6 witness: the run is over; the first of two files failed with an
\* exception while being written, the second was still converted.
C6_Witness ==
    /\ cpc = "done"
    /\ Len(nfc_files) = 2
    /\ Len(errors) = 1
    /\ errors[1].file = "Spyro.nfc"
    /\ errors[1].error = "cannot write"
    /\ Converted(2)
    /\ converted_count = 1

(***************************************************************************)
(* enrich_character_data.py: the character table                           *)
(***************************************************************************)

\* the dict CHARACTER_DATABASE, in its insertion order
CHARACTER_DATABASE ==
    <<
      [key |-> "Spyro",
       value |-> [element |-> "Magic",
                 biography |-> "A brave purple dragon who protects the Skylands with his fire breath and determination. Spyro is the legendary hero of the Skylands.",
                 abilities |-> <<"Fire Breath", "Charge Attack", "Dragon Flight">>,
                 character_type |-> "Core"]],
      [key |-> "Bash",
       value |-> [element |-> "Earth",
                 biography |-> "A powerful triceratops who uses his massive horns and tail to crush enemies. Bash is known for his strength and durability.",
                 abilities |-> <<"Horn Charge", "Tail Swipe", "Earthquake">>,
                 character_type |-> "Core"]],
      [key |-> "Boomer",
       value |-> [element |-> "Tech",
                 biography |-> "A mechanical troll who throws explosive boomerangs. Boomer combines ancient troll magic with modern technology.",
                 abilities |-> <<"Boomerang Throw", "Explosive Attack", "Tech Shield">>,
                 character_type |-> "Core"]],
      [key |-> "Camo",
       value |-> [element |-> "Life",
                 biography |-> "A plant-based creature who can blend into nature and attack from stealth. Camo uses nature's power to protect the Skylands.",
                 abilities |-> <<"Stealth Attack", "Vine Whip", "Nature's Wrath">>,
                 character_type |-> "Core"]],
      [key |-> "Chop-Chop",
       value |-> [element |-> "Undead",
                 biography |-> "A skeletal warrior who wields dual swords with deadly precision. Chop-Chop is a master of close combat.",
                 abilities |-> <<"Dual Sword Slash", "Bone Shield", "Undead Strike">>,
                 character_type |-> "Core"]],
      [key |-> "Cynder",
       value |-> [element |-> "Undead",
                 biography |-> "A dark dragon who was once evil but now fights for good. Cynder uses shadow and darkness as her weapons.",
                 abilities |-> <<"Shadow Breath", "Dark Flight", "Shadow Strike">>,
                 character_type |-> "Core"]],
      [key |-> "Dino-Rang",
       value |-> [element |-> "Earth",
                 biography |-> "A dinosaur who throws boomerangs with incredible accuracy. Dino-Rang combines ancient power with modern combat.",
                 abilities |-> <<"Boomerang Throw", "Earth Slam", "Precision Strike">>,
                 character_type |-> "Core"]],
      [key |-> "Double Trouble",
       value |-> [element |-> "Magic",
                 biography |-> "A two-headed wizard who casts powerful spells. Double Trouble's dual minds make them unpredictable in battle.",
                 abilities |-> <<"Magic Blast", "Dual Spell", "Mystic Shield">>,
                 character_type |-> "Core"]],
      [key |-> "Drill Sergeant",
       value |-> [element |-> "Tech",
                 biography |-> "A robotic drill sergeant who commands with authority and precision. Drill Sergeant uses military tactics and technology.",
                 abilities |-> <<"Drill Attack", "Command Strike", "Tech Blast">>,
                 character_type |-> "Core"]],
      [key |-> "Drobot",
       value |-> [element |-> "Tech",
                 biography |-> "A robotic dragon who combines the power of dragons with advanced technology. Drobot is a high-tech guardian.",
                 abilities |-> <<"Laser Breath", "Tech Flight", "System Overload">>,
                 character_type |-> "Core"]],
      [key |-> "Eruptor",
       value |-> [element |-> "Fire",
                 biography |-> "A living volcano who spews lava and fire. Eruptor's explosive temper matches his explosive power.",
                 abilities |-> <<"Lava Blast", "Fire Eruption", "Magma Strike">>,
                 character_type |-> "Core"]],
      [key |-> "FlameSlinger",
       value |-> [element |-> "Fire",
                 biography |-> "An elf archer who shoots flaming arrows with perfect accuracy. FlameSlinger is a master of fire and precision.",
                 abilities |-> <<"Flaming Arrow", "Fire Shot", "Precision Strike">>,
                 character_type |-> "Core"]],
      [key |-> "Ghost Roaster",
       value |-> [element |-> "Undead",
                 biography |-> "A ghostly warrior who haunts the battlefield. Ghost Roaster can phase through attacks and strike from the shadows.",
                 abilities |-> <<"Phantom Strike", "Ghost Form", "Soul Drain">>,
                 character_type |-> "Core"]],
      [key |-> "Gill Grunt",
       value |-> [element |-> "Water",
                 biography |-> "A fish soldier who fights with water cannons and harpoons. Gill Grunt is a master of aquatic combat.",
                 abilities |-> <<"Water Cannon", "Harpoon Shot", "Aqua Blast">>,
                 character_type |-> "Core"]],
      [key |-> "Hex",
       value |-> [element |-> "Undead",
                 biography |-> "A skeletal sorceress who casts dark magic. Hex combines necromancy with powerful spellcasting.",
                 abilities |-> <<"Dark Magic", "Bone Shield", "Necromancy">>,
                 character_type |-> "Core"]],
      [key |-> "Ignitor",
       value |-> [element |-> "Fire",
                 biography |-> "A fire knight who wields a flaming sword. Ignitor is a noble warrior who fights with honor and fire.",
                 abilities |-> <<"Flaming Sword", "Fire Charge", "Knight's Valor">>,
                 character_type |-> "Core"]],
      [key |-> "Lightning Rod",
       value |-> [element |-> "Air",
                 biography |-> "A lightning-powered warrior who controls storms. Lightning Rod harnesses the power of thunder and lightning.",
                 abilities |-> <<"Lightning Strike", "Thunder Blast", "Storm Control">>,
                 character_type |-> "Core"]],
      [key |-> "Prism Break",
       value |-> [element |-> "Earth",
                 biography |-> "A crystal warrior who uses light and earth. Prism Break refracts light through crystals to create powerful attacks.",
                 abilities |-> <<"Crystal Blast", "Light Refraction", "Earth Crystal">>,
                 character_type |-> "Core"]],
      [key |-> "Slam Bam",
       value |-> [element |-> "Water",
                 biography |-> "A yeti who fights with ice and water. Slam Bam combines brute strength with elemental power.",
                 abilities |-> <<"Ice Slam", "Water Blast", "Frost Strike">>,
                 character_type |-> "Core"]],
      [key |-> "Sonic Boom",
       value |-> [element |-> "Air",
                 biography |-> "A bat who uses sonic waves to attack. Sonic Boom's powerful screech can shatter enemies.",
                 abilities |-> <<"Sonic Screech", "Air Blast", "Wing Strike">>,
                 character_type |-> "Core"]],
      [key |-> "Stealth Elf",
       value |-> [element |-> "Life",
                 biography |-> "A ninja elf who moves in shadows. Stealth Elf is a master of stealth and precision strikes.",
                 abilities |-> <<"Stealth Attack", "Shadow Strike", "Elf Precision">>,
                 character_type |-> "Core"]],
      [key |-> "Stump Smash",
       value |-> [element |-> "Life",
                 biography |-> "A tree warrior who uses nature's power. Stump Smash combines plant magic with physical strength.",
                 abilities |-> <<"Root Strike", "Nature's Wrath", "Tree Slam">>,
                 character_type |-> "Core"]],
      [key |-> "Sunburn",
       value |-> [element |-> "Fire",
                 biography |-> "A phoenix who rises from ashes. Sunburn combines fire and air elements in powerful attacks.",
                 abilities |-> <<"Fire Flight", "Phoenix Strike", "Flame Rebirth">>,
                 character_type |-> "Core"]],
      [key |-> "Terrafin",
       value |-> [element |-> "Earth",
                 biography |-> "A shark who burrows through earth. Terrafin combines aquatic power with earth manipulation.",
                 abilities |-> <<"Earth Burrow", "Shark Strike", "Ground Slam">>,
                 character_type |-> "Core"]],
      [key |-> "Trigger Happy",
       value |-> [element |-> "Tech",
                 biography |-> "A gun-slinging troll who never runs out of ammo. Trigger Happy is a master of rapid-fire combat.",
                 abilities |-> <<"Rapid Fire", "Gun Blast", "Tech Precision">>,
                 character_type |-> "Core"]],
      [key |-> "Voodood",
       value |-> [element |-> "Magic",
                 biography |-> "A voodoo shaman who casts powerful curses. Voodood uses dark magic and voodoo dolls in battle.",
                 abilities |-> <<"Voodoo Curse", "Dark Magic", "Shaman Strike">>,
                 character_type |-> "Core"]],
      [key |-> "Warnado",
       value |-> [element |-> "Air",
                 biography |-> "A tornado warrior who controls wind. Warnado spins into battle with devastating force.",
                 abilities |-> <<"Tornado Spin", "Wind Blast", "Air Strike">>,
                 character_type |-> "Core"]],
      [key |-> "Wham Shell",
       value |-> [element |-> "Water",
                 biography |-> "A shell warrior who fights with water and shells. Wham Shell uses his shell as both weapon and shield.",
                 abilities |-> <<"Shell Strike", "Water Blast", "Shell Shield">>,
                 character_type |-> "Core"]],
      [key |-> "Whirlwind",
       value |-> [element |-> "Air",
                 biography |-> "A unicorn who controls wind and rainbows. Whirlwind combines air magic with healing powers.",
                 abilities |-> <<"Rainbow Blast", "Wind Strike", "Healing Rain">>,
                 character_type |-> "Core"]],
      [key |-> "Wrecking Ball",
       value |-> [element |-> "Earth",
                 biography |-> "A mole who rolls into battle. Wrecking Ball uses his round body as a devastating weapon.",
                 abilities |-> <<"Roll Attack", "Earth Burrow", "Ball Slam">>,
                 character_type |-> "Core"]],
      [key |-> "Zap",
       value |-> [element |-> "Water",
                 biography |-> "An electric eel who controls water and electricity. Zap combines aquatic and electric powers.",
                 abilities |-> <<"Electric Blast", "Water Strike", "Shock Attack">>,
                 character_type |-> "Core"]],
      [key |-> "Zook",
       value |-> [element |-> "Life",
                 biography |-> "A musician who uses sound waves. Zook combines music magic with nature's power.",
                 abilities |-> <<"Sound Blast", "Music Magic", "Nature's Song">>,
                 character_type |-> "Core"]],
      [key |-> "Bouncer",
       value |-> [element |-> "Tech",
                 biography |-> "A giant robot who towers over enemies. Bouncer uses massive strength and technology to dominate the battlefield.",
                 abilities |-> <<"Giant Slam", "Tech Blast", "Massive Strike">>,
                 character_type |-> "Giant"]],
      [key |-> "Crusher",
       value |-> [element |-> "Earth",
                 biography |-> "A giant golem made of stone. Crusher crushes everything in his path with earth-shattering power.",
                 abilities |-> <<"Stone Slam", "Earthquake", "Giant Strike">>,
                 character_type |-> "Giant"]],
      [key |-> "Eye-Brawl",
       value |-> [element |-> "Undead",
                 biography |-> "A giant cyclops with a floating eye. Eye-Brawl combines brute strength with mystical vision.",
                 abilities |-> <<"Giant Strike", "Eye Blast", "Undead Power">>,
                 character_type |-> "Giant"]],
      [key |-> "Hot Head",
       value |-> [element |-> "Fire",
                 biography |-> "A giant fire demon who burns everything. Hot Head's flames are as hot as his temper.",
                 abilities |-> <<"Fire Blast", "Giant Slam", "Inferno">>,
                 character_type |-> "Giant"]],
      [key |-> "Ninjini",
       value |-> [element |-> "Magic",
                 biography |-> "A giant genie who grants wishes and fights with magic. Ninjini combines genie magic with ninja skills.",
                 abilities |-> <<"Magic Blast", "Genie Strike", "Wish Power">>,
                 character_type |-> "Giant"]],
      [key |-> "Swarm",
       value |-> [element |-> "Life",
                 biography |-> "A giant bug who commands insects. Swarm uses nature's power and insect armies in battle.",
                 abilities |-> <<"Swarm Attack", "Insect Strike", "Nature's Wrath">>,
                 character_type |-> "Giant"]],
      [key |-> "Thumpback",
       value |-> [element |-> "Water",
                 biography |-> "A giant whale warrior who controls water. Thumpback uses massive size and aquatic power.",
                 abilities |-> <<"Water Blast", "Giant Slam", "Whale Strike">>,
                 character_type |-> "Giant"]],
      [key |-> "Tree Rex",
       value |-> [element |-> "Life",
                 biography |-> "A giant tree warrior who protects nature. Tree Rex combines plant magic with massive strength.",
                 abilities |-> <<"Root Strike", "Giant Slam", "Nature's Wrath">>,
                 character_type |-> "Giant"]]
    >>

(***************************************************************************)
(* normalize_name and find_character_data                                  *)
(***************************************************************************)

\* str.replace(old, new) on s from index i on: left to right, no overlaps
RECURSIVE ReplaceFrom(_, _, _, _)
ReplaceFrom(s, i, old, new) ==
    IF i > Len(s) THEN ""
    ELSE IF MatchLit(s, i, old, FALSE)
         THEN new \o ReplaceFrom(s, i + Len(old), old, new)
         ELSE At(s, i) \o ReplaceFrom(s, i + 1, old, new)

replace(s, old, new) == ReplaceFrom(s, 1, old, new)

\* "sub in s"
contains(s, sub) ==
    \/ Len(sub) = 0
    \/ \E p \in 1..(Len(s) - Len(sub) + 1) : SubSeq(s, p, p + Len(sub) - 1) = sub

\* the list variants of normalize_name
variants ==
    << " (Blue)", " (Legendary)", " (Silver)", " (Gold)",
       " (Red)", " (Clear)", " (GITD)", " (Metallic Purple)",
       " (Pearl)", " (Chrome)", " (Dark)", " (Flocked)",
       " (Sidekick)", " (SideKick)", " (Halloween)", " (Sparkle)",
       " (Scarlet)", " (Gnarly)", " (Granite)", " (Meatallic Purple)",
       " (Series 2)", " (Series 3)", " (Series 4)", " (Eons Elite)",
       " (Spring)", " (Mini)", " (Legendary Bone Bash)", " (Bone Bash)",
       " (Dark Sure Shot)", " (Shark Shooter)", " (Power Blue Double Dare)", " (Lava Lance)",
       " (Deep Dive)", " (Double Dare)", " (Sure Shot)", " (Bronze Bottom)",
       " (Gold Bottom)", " Top", " Bottom" >>

\* "for variant in variants: name = name.replace(variant, '')", from variants[i]
\* on (stripped is bound to the value of the assignment before the loop goes on)
RECURSIVE StripVariants(_, _)
StripVariants(nm, i) ==
    IF i > Len(variants) THEN nm
    ELSE CHOOSE r \in {StripVariants(stripped, i + 1) :
                          stripped \in {replace(nm, variants[i], "")}} : TRUE

\* \s*\(Series\s+\d+\) matched at p under re.IGNORECASE: the index after the
\* match, 0 when it does not match at p
SeriesMatchEnd(s, p) ==
    LET w == SpanWhile(s, p, SpaceChars)
        a == w + Len("(Series")
        b == SpanWhile(s, a, SpaceChars)
        c == SpanWhile(s, b, DigitChars)
    IN  IF /\ MatchLit(s, w, "(Series", TRUE)
           /\ b > a /\ c > b /\ c <= Len(s) /\ At(s, c) = ")"
        THEN c + 1
        ELSE 0

\* re.sub(r'\s*\(Series\s+\d+\)', '', name, flags=re.IGNORECASE) from index i on
RECURSIVE SubSeries(_, _)
SubSeries(s, i) ==
    IF i > Len(s) THEN ""
    ELSE IF SeriesMatchEnd(s, i) # 0 THEN SubSeries(s, SeriesMatchEnd(s, i))
    ELSE At(s, i) \o SubSeries(s, i + 1)

\* the first part of normalize_name: the variants, then the series numbers
StripSuffixes(nm) == SubSeries(StripVariants(nm, 1), 1)

\* name.replace("-", " ").replace("_", " ").strip()
SpacesAndStrip(nm) == strip(replace(replace(nm, "-", " "), "_", " "))

\* the special cases
SpecialCases(nm) == replace(replace(nm, "Crash Bash", "Bash"), "Weeruptor", "Eruptor")

\* normalize_name with the special cases handled before the separators
normalize_name_AliasFirst(nm) == SpacesAndStrip(SpecialCases(StripSuffixes(nm)))

normalize_name(nm) == SpecialCases(SpacesAndStrip(StripSuffixes(nm)))

\* Optional[Dict]: <<>> is None, <<v>> is the dict v
None == <<>>
Some(v) == <<v>>

\* the partial-match loop looking only for keys that occur in the name
RECURSIVE PartialMatch_KeyInName(_, _)
PartialMatch_KeyInName(nm, i) ==
    IF i > Len(CHARACTER_DATABASE) THEN None
    ELSE IF contains(lower(nm), lower(CHARACTER_DATABASE[i].key))
         THEN Some(CHARACTER_DATABASE[i].value)
         ELSE PartialMatch_KeyInName(nm, i + 1)

\* "for key, value in CHARACTER_DATABASE.items()" from entry i on
RECURSIVE PartialMatch(_, _)
PartialMatch(nm, i) ==
    IF i > Len(CHARACTER_DATABASE) THEN None
    ELSE IF \/ contains(lower(nm), lower(CHARACTER_DATABASE[i].key))
            \/ contains(lower(CHARACTER_DATABASE[i].key), lower(nm))
         THEN Some(CHARACTER_DATABASE[i].value)
         ELSE PartialMatch(nm, i + 1)

\* the body of find_character_data after the name is normalized
MatchProfile(nm) ==
    LET direct == {i \in 1..Len(CHARACTER_DATABASE) : CHARACTER_DATABASE[i].key = nm}
    IN  IF direct # {}
        THEN Some(CHARACTER_DATABASE[CHOOSE i \in direct : TRUE].value)
        ELSE PartialMatch(nm, 1)

find_character_data(nm) == MatchProfile(normalize_name(nm))

(***************************************************************************)
(* SpecNames: one name through normalize_name and find_character_data      *)
(***************************************************************************)

\* how many suffixes a name of the pool carries at most
MaxSuffixes == 1

BaseNames ==
    { "Spyro", "Bash", "Crash Bash", "Crash-Bash", "Crash_Bash", "Weeruptor",
      "Eye-Brawl", "Hot_Head", "Unknown Hero", "", "x", "Boom", "HEX", " Zap " }

Suffixes ==
    { " (Legendary)", " (Series 2)", " (series 12)", "  (Series 5)", " Top",
      " (Gold Bottom)" }

RECURSIVE Suffixed(_)
Suffixed(n) ==
    IF n = 0 THEN BaseNames
    ELSE LET shorter == Suffixed(n - 1)
         IN  shorter \cup {b \o x : b \in shorter, x \in Suffixes}

NameInputs == Suffixed(MaxSuffixes)

InitNames ==
    /\ character_name \in NameInputs
    /\ normalized = ""
    /\ char_data = None
    /\ npc = "start"
    /\ content = ""
    /\ data = EmptyData
    /\ log = <<>>
    /\ ppc = "idle"
    /\ ConverterIdle
    /\ EnricherIdle

\* normalized = normalize_name(character_name)
NormalizeName ==
    /\ npc = "start"
    /\ normalized' = normalize_name(character_name)
    /\ npc' = "normalized"
    /\ UNCHANGED <<character_name, char_data, pvars, cvars, evars>>

\* the call find_character_data(character_name)
FindCharacter ==
    /\ npc = "normalized"
    /\ char_data' = find_character_data(character_name)
    /\ npc' = "found"
    /\ UNCHANGED <<character_name, normalized, pvars, cvars, evars>>

NextNames == NormalizeName \/ FindCharacter

SpecNames == InitNames /\ [][NextNames]_vars

(***************************************************************************)
(* enrich_json_file                                                        *)
(***************************************************************************)

\* how often the enricher is run over the file
MaxRuns == 2

\* dict.get(key, default)
Get(dict, key, default) == IF key \in DOMAIN dict THEN dict[key] ELSE default

\* dict[key] = value
SetKey(dict, key, value) ==
    [k \in DOMAIN dict \cup {key} |-> IF k = key THEN value ELSE dict[k]]

\* the truth value of dict.get(key) for a key that holds a string or None
Truthy(dict, key) == Get(dict, key, Null) \notin {Null, ""}

\* str.split(sep) for a one-character sep
RECURSIVE split(_, _)
split(s, sep) ==
    LET hits == {i \in 1..Len(s) : At(s, i) = sep}
    IN  IF hits = {} THEN <<s>>
        ELSE <<SubSeq(s, 1, Min(hits) - 1)>> \o split(SubSeq(s, Min(hits) + 1, Len(s)), sep)

\* the skip test looking for the biography under another key
AlreadyEnriched_WrongKey(metadata) ==
    Truthy(metadata, "element") /\ Truthy(metadata, "bio")

\* "if metadata.get('element') and metadata.get('biography')"
AlreadyEnriched(metadata) ==
    Truthy(metadata, "element") /\ Truthy(metadata, "biography")

\* the four assignments from the matched profile
MergeProfile(metadata, profile) ==
    SetKey(SetKey(SetKey(SetKey(metadata,
        "element", profile.element),
        "biography", profile.biography),
        "abilities", profile.abilities),
        "character_type", profile.character_type)

\* the interactive branch: answers holds what input() returned for the four
\* prompts; each is stripped and stored only when it is not empty
MergeAnswers(metadata, answers) ==
    LET element == strip(answers.element)
        biography == strip(answers.biography)
        abilities_str == strip(answers.abilities)
        character_type == strip(answers.character_type)
        abilities == [k \in 1..Len(split(abilities_str, ",")) |->
                         strip(split(abilities_str, ",")[k])]
        m1 == IF element # "" THEN SetKey(metadata, "element", element) ELSE metadata
        m2 == IF biography # "" THEN SetKey(m1, "biography", biography) ELSE m1
        m3 == IF abilities_str # "" THEN SetKey(m2, "abilities", abilities) ELSE m2
    IN  IF character_type # "" THEN SetKey(m3, "character_type", character_type) ELSE m3

\* the file after "with open(file_path, 'w') ... json.dump(data, ...)": when
\* json.dump raises, the file is left opened for writing and not valid JSON
SaveJson(doc, fault) ==
    IF fault = "write" THEN [valid |-> FALSE, doc |-> <<>>]
    ELSE [valid |-> TRUE, doc |-> doc]

\* "metadata = data.get('metadata', {})"
MetadataOf(doc) == IF "metadata" \in DOMAIN doc THEN doc.metadata ELSE <<>>

\* "character_name = metadata.get('original_filename', '').replace('.nfc', '')"
CharacterName(doc) ==
    replace(Get(MetadataOf(doc), "original_filename", ""), ".nfc", "")

\* enrich_json_file(file_path, interactive) on the file, with the answers the
\* operator gives when asked and the fault that strikes when the file is
\* saved: the file afterwards, the value returned, the status line printed
\* and whether the file was opened for writing.  profile is the value of
\* find_character_data(character_name), which the body reads after the skip
\* test only
enrich_json_file(file, profile, inter, answers, fault) ==
    LET doc == file.doc
        has_metadata == "metadata" \in DOMAIN doc
        metadata == MetadataOf(doc)
        merged == IF profile # None THEN MergeProfile(metadata, profile[1])
                  ELSE MergeAnswers(metadata, answers)
        \* metadata is the object data holds only when data has the key
        saved == IF has_metadata THEN [doc EXCEPT !.metadata = merged] ELSE doc
        written(st) == [file |-> SaveJson(saved, fault),
                        result |-> IF fault = "write" THEN "False" ELSE "True",
                        status |-> IF fault = "write" THEN "error" ELSE st,
                        wrote |-> TRUE]
    IN  IF ~file.valid
        THEN [file |-> file, result |-> "False", status |-> "error", wrote |-> FALSE]
        ELSE IF AlreadyEnriched(metadata)
        THEN [file |-> file, result |-> "False", status |-> "skipped", wrote |-> FALSE]
        ELSE IF profile # None THEN written("enriched")
        ELSE IF inter THEN written("manual")
        ELSE [file |-> file, result |-> "False", status |-> "unmatched", wrote |-> FALSE]

(***************************************************************************)
(* SpecEnrich: the enricher run over one JSON file, MaxRuns times          *)
(***************************************************************************)

\* the parse of a complete dump, as the converter stores it
SampleData ==
    parse_flipper_nfc_file(
        "UID: 04 A2 B3\nATQA: 00 04\nSAK: 08\nMifare Classic type: 1K\nBlock 0: "
        \o Pairs16 \o "\n")

\* the file names the documents of the tree were converted from
EnrichNames ==
    {"Spyro (Legendary).nfc", "Crash-Bash.nfc", "Eye-Brawl.nfc", "Unknown Hero.nfc"}

\* the files *.json of the input directory: the converter's documents, a JSON
\* document of another origin (no metadata object) and a file json.load rejects
JsonFiles ==
    {[valid |-> TRUE, doc |-> Document(SampleData, <<"Skylanders 1", n>>)] :
        n \in EnrichNames}
    \cup {[valid |-> TRUE, doc |-> [uid |-> "04A2B3", blocks |-> <<>>]],
          [valid |-> FALSE, doc |-> <<>>]}

\* what the operator can type at the four prompts
Answers ==
    [element : {"", "Fire"}, biography : {"", " A hero. "},
     abilities : {"", "Jump, Run"}, character_type : {"", "Core"}]

NoAnswers == [element |-> "", biography |-> "", abilities |-> "", character_type |-> ""]

InitEnrich ==
    /\ json_file \in JsonFiles
    /\ interactive = FALSE
    /\ enrich_result = "none"
    /\ status = "none"
    /\ writes = 0
    /\ runs = 0
    /\ content = ""
    /\ data = EmptyData
    /\ log = <<>>
    /\ ppc = "idle"
    /\ ConverterIdle
    /\ MatcherIdle

\* one run of the enricher: main calls enrich_json_file on the file
EnrichRun ==
    /\ runs < MaxRuns
    /\ \E profile \in {find_character_data(CharacterName(json_file.doc))} :
       \E inter \in BOOLEAN, fault \in {"none", "write"} :
       \E answers \in IF inter THEN Answers ELSE {NoAnswers} :
          LET r == enrich_json_file(json_file, profile, inter, answers, fault)
          IN  /\ json_file' = r.file
              /\ interactive' = inter
              /\ enrich_result' = r.result
              /\ status' = r.status
              /\ writes' = IF r.wrote THEN writes + 1 ELSE writes
    /\ runs' = runs + 1
    /\ UNCHANGED <<pvars, cvars, nvars>>

NextEnrich == EnrichRun

SpecEnrich == InitEnrich /\ [][NextEnrich]_vars

(***************************************************************************)
(* Claims about normalize_name and find_character_data                     *)
(***************************************************************************)

\* sub occurs in s
Occurs(sub, s) == \E a \in 0..Len(s) : \E b \in a..Len(s) : SubSeq(s, a + 1, b) = sub

\* the table entries whose key is the name
ExactKeys(nm) == {i \in 1..Len(CHARACTER_DATABASE) : CHARACTER_DATABASE[i].key = nm}

\* the table entries whose key contains the name or is contained in it,
\* letter case ignored
PartialKeys(nm) ==
    {i \in 1..Len(CHARACTER_DATABASE) :
        \/ Occurs(lower(nm), lower(CHARACTER_DATABASE[i].key))
        \/ Occurs(lower(CHARACTER_DATABASE[i].key), lower(nm))}

\* C8: for the normalized name, find_character_data returns the profile of
\* the key equal to it when there is one; otherwise the profile of the first
\* key, in table order, that contains the name or is contained in it (case
\* ignored); and None exactly when no key passes either test.
C8_ExactThenFirstPartial ==
    npc = "found" =>
        /\ ExactKeys(normalized) # {} =>
              \E i \in ExactKeys(normalized) : char_data = <<CHARACTER_DATABASE[i].value>>
        /\ (ExactKeys(normalized) = {} /\ PartialKeys(normalized) # {}) =>
              char_data = <<CHARACTER_DATABASE[Min(PartialKeys(normalized))].value>>
        /\ char_data = <<>> <=>
              (ExactKeys(normalized) = {} /\ PartialKeys(normalized) = {})

\* C8 witness: "Boom" is no key and is contained in two keys, "Boomer" (third
\* in the table) and "Sonic Boom" (twentieth); the first one's profile is
\* returned.
C8_Witness ==
    /\ npc = "found"
    /\ normalized = "Boom"
    /\ CHARACTER_DATABASE[3].key = "Boomer"
    /\ {3, 20} \subseteq PartialKeys(normalized)
    /\ char_data = <<CHARACTER_DATABASE[3].value>>
    /\ char_data[1].element = "Tech"

\* the reference normalizer's replacement of every old in s by new: the
\* leftmost occurrence, then the rest of the string
RECURSIVE RefReplace(_, _, _)
RefReplace(s, old, new) ==
    LET hits == {p \in 1..(Len(s) - Len(old) + 1) : SubSeq(s, p, p + Len(old) - 1) = old}
    IN  IF hits = {} THEN s
        ELSE SubSeq(s, 1, Min(hits) - 1) \o new
             \o RefReplace(SubSeq(s, Min(hits) + Len(old), Len(s)), old, new)

\* the reference normalizer's trimming: white space off both ends
RECURSIVE RefTrim(_)
RefTrim(s) ==
    IF Len(s) = 0 THEN s
    ELSE IF At(s, 1) \in SpaceChars THEN RefTrim(SubSeq(s, 2, Len(s)))
    ELSE IF At(s, Len(s)) \in SpaceChars THEN RefTrim(SubSeq(s, 1, Len(s) - 1))
    ELSE s

\* step "suffixes" of the reference: each variant of the list removed in list
\* order, then every "(Series <digits>)" marker with the white space before it
RECURSIVE RefRemoveVariants(_, _)
RefRemoveVariants(s, i) ==
    IF i > Len(variants) THEN s
    ELSE CHOOSE r \in {RefRemoveVariants(t, i + 1) : t \in {RefReplace(s, variants[i], "")}} : TRUE

RECURSIVE RefRemoveSeries(_)
RefRemoveSeries(s) ==
    LET hits == {p \in 1..Len(s) : SeriesMatchEnd(s, p) # 0}
    IN  IF hits = {} THEN s
        ELSE SubSeq(s, 1, Min(hits) - 1)
             \o RefRemoveSeries(SubSeq(s, SeriesMatchEnd(s, Min(hits)), Len(s)))

RefSuffixes(s) == RefRemoveSeries(RefRemoveVariants(s, 1))

\* step "aliases" of the reference
RefAliases(s) == RefReplace(RefReplace(s, "Crash Bash", "Bash"), "Weeruptor", "Eruptor")

\* step "separators" of the reference
RefSeparators(s) == RefTrim(RefReplace(RefReplace(s, "-", " "), "_", " "))

\* C9 as stated: the result of normalize_name is that of the reference that
\* strips the suffixes, then collapses the aliases, then replaces hyphens and
\* underscores with spaces and trims.
C9_SuffixAliasSeparator ==
    npc # "start" =>
        normalized = RefSeparators(RefAliases(RefSuffixes(character_name)))

\* C9 amended: the result of normalize_name is that of the reference that
\* strips the suffixes, then replaces hyphens and underscores with spaces and
\* trims, and only then collapses the aliases.
C9_SuffixSeparatorAlias ==
    npc # "start" =>
        normalized = RefAliases(RefSeparators(RefSuffixes(character_name)))

\* C9 witness: a hyphenated alias with a suffix; the alias is collapsed because
\* the hyphen is replaced first.
C9_Witness ==
    /\ npc = "normalized"
    /\ character_name = "Crash-Bash (Legendary)"
    /\ normalized = "Bash"


(***************************************************************************)
(* Claims about enrich_json_file                                           *)
(***************************************************************************)

\* the file holds a document whose metadata has both an element and a biography
HasProfile(file) ==
    /\ file.valid
    /\ "metadata" \in DOMAIN file.doc
    /\ "element" \in DOMAIN file.doc.metadata
    /\ file.doc.metadata.element \notin {Null, ""}
    /\ "biography" \in DOMAIN file.doc.metadata
    /\ file.doc.metadata.biography \notin {Null, ""}

\* a run that leaves the file alone and reports it as skipped
SkipStep ==
    /\ json_file' = json_file
    /\ writes' = writes
    /\ enrich_result' = "False"
    /\ status' = "skipped"

\* the last run counted the file as enriched after a match in the table
EnrichedFromTable ==
    /\ enrich_result = "True"
    /\ status = "enriched"
    /\ json_file.valid
    /\ "metadata" \in DOMAIN json_file.doc

NotYetEnriched(file) ==
    /\ file.valid
    /\ "metadata" \in DOMAIN file.doc
    /\ ~HasProfile(file)

\* the metadata of the file holds the four fields of the profile
HoldsProfile(file, profile) ==
    /\ file.valid
    /\ "metadata" \in DOMAIN file.doc
    /\ {"element", "biography", "abilities", "character_type"}
           \subseteq DOMAIN file.doc.metadata
    /\ file.doc.metadata.element = profile.element
    /\ file.doc.metadata.biography = profile.biography
    /\ file.doc.metadata.abilities = profile.abilities
    /\ file.doc.metadata.character_type = profile.character_type

\* C11: a non-interactive run over a document with a metadata object that is
\* not yet enriched opens the file for writing if and only if
\* find_character_data finds a profile for the name taken from
\* original_filename; on a match the file then holds the profile's element,
\* biography, abilities and character_type in its metadata and the call
\* returns True; without a match the file is not written, the document is
\* unchanged and the call reports it as unmatched.
C11_RewrittenIffMatched ==
    [][(runs' = runs + 1 /\ ~interactive' /\ NotYetEnriched(json_file)) =>
        LET found == find_character_data(CharacterName(json_file.doc))
        IN  /\ (writes' = writes + 1) <=> (found # None)
            /\ found # None =>
                  /\ HoldsProfile(json_file', found[1])
                  /\ enrich_result' = "True"
            /\ found = None =>
                  /\ json_file' = json_file
                  /\ writes' = writes
                  /\ enrich_result' = "False"
                  /\ status' = "unmatched"]_vars


(***************************************************************************)
(* SpecKeys: every key of CHARACTER_DATABASE looked up as a character name *)
(***************************************************************************)

\* CHARACTER_DATABASE.keys()
TableKeys == {CHARACTER_DATABASE[i].key : i \in 1..Len(CHARACTER_DATABASE)}

InitKeys ==
    /\ character_name \in TableKeys
    /\ normalized = ""
    /\ char_data = None
    /\ npc = "start"
    /\ content = ""
    /\ data = EmptyData
    /\ log = <<>>
    /\ ppc = "idle"
    /\ ConverterIdle
    /\ EnricherIdle

SpecKeys == InitKeys /\ [][NextNames]_vars

\* C12: for every key k of the character table, find_character_data(k)
\* returns exactly the profile stored under k.
C12_EveryKeyFindsItself ==
    npc = "found" =>
        \A i \in 1..Len(CHARACTER_DATABASE) :
            CHARACTER_DATABASE[i].key = character_name =>
                char_data = Some(CHARACTER_DATABASE[i].value)


(***************************************************************************)
(* The frame of enrich_json_file                                           *)
(***************************************************************************)

\* the metadata fields the enricher adds
ProfileFields == {"element", "biography", "abilities", "character_type"}

\* the two documents have the same keys and the same values, except for the
\* profile fields of metadata
SameOutsideProfile(before, after) ==
    /\ DOMAIN after = DOMAIN before
    /\ \A k \in DOMAIN before \ {"metadata"} : after[k] = before[k]
    /\ "metadata" \in DOMAIN before =>
          /\ DOMAIN after.metadata \ ProfileFields
                = DOMAIN before.metadata \ ProfileFields
          /\ \A k \in DOMAIN before.metadata \ ProfileFields :
                after.metadata[k] = before.metadata[k]

\* C13: whatever the outcome of a run (skipped, matched, manual entry,
\* unmatched or error), the file holds the same document afterwards except
\* for metadata's element, biography, abilities and character_type: uid,
\* atqa, sak, mifare_type, blocks, original_filename, original_path, category
\* and subcategory are as before.
C13_OnlyProfileFieldsChange ==
    [][runs' = runs + 1 =>
        /\ json_file'.valid = json_file.valid
        /\ SameOutsideProfile(json_file.doc, json_file'.doc)]_vars

====
